---- MODULE Spec2Model ----
(***************************************************************************)
(* A model of the TestApi backend: the Post table with its slug            *)
(* assignment (postapi/models.py, postapi/views.py, postapi/serializers.py)*)
(* and the token life cycle of customusers/authentication.py.              *)
(*                                                                         *)
(* Strings are sequences of one-character strings, so that slugify and the *)
(* f"{base_slug}-{counter}" formatting are computed, not assumed.          *)
(***************************************************************************)
EXTENDS Integers, Sequences, FiniteSets, TLC

VARIABLES posts, nextId, req,
          users, nextUid, refreshTokens, nextJti, accessTokens, blacklist, now, last,
          loggedOut, blacklistApp, throttle

postVars == <<posts, nextId, req>>
authVars == <<users, nextUid, refreshTokens, nextJti, accessTokens, blacklist, now, last,
              loggedOut, blacklistApp, throttle>>
vars == <<postVars, authVars>>

(***************************************************************************)
(* Bounds of the model.                                                    *)
(***************************************************************************)
MaxPosts == 2
MaxCounter == 3
NumReqs == 3
MaxUsers == 2
MaxTokens == 2
MaxTime == 1
MaxWait == 2

Reqs == 1..NumReqs
Anon == 0

(***************************************************************************)
(* Characters and django.utils.text.slugify, as Post.save calls it.        *)
(***************************************************************************)
Lower == {"h", "w"}
Digit == {"0", "1", "2", "3", "4", "5", "6", "7", "8", "9"}
Space == {" "}

\* A character outside ASCII is written by its code point: U+65E5 is a CJK
\* letter, which NFKD leaves as it is.
NonAscii == {"U+65E5"}

\* unicodedata.normalize("NFKD", value).encode("ascii", "ignore").decode("ascii")
RECURSIVE AsciiIgnore(_)
AsciiIgnore(s) ==
    IF s = <<>> THEN <<>>
    ELSE IF Head(s) \in NonAscii THEN AsciiIgnore(Tail(s))
    ELSE <<Head(s)>> \o AsciiIgnore(Tail(s))

ToLower(c) == IF c = "H" THEN "h" ELSE IF c = "W" THEN "w" ELSE c

\* [^\w\s-] is removed: what remains is a word character, white space or "-".
Kept(c) == c \in Lower \cup Digit \cup Space \cup {"_", "-"}

RECURSIVE LowerAll(_)
LowerAll(s) == IF s = <<>> THEN <<>> ELSE <<ToLower(Head(s))>> \o LowerAll(Tail(s))

RECURSIVE RemoveUnkept(_)
RemoveUnkept(s) ==
    IF s = <<>> THEN <<>>
    ELSE IF Kept(Head(s)) THEN <<Head(s)>> \o RemoveUnkept(Tail(s))
    ELSE RemoveUnkept(Tail(s))

\* re.sub(r"[-\s]+", "-", value): each maximal run of hyphens and white space
\* becomes one hyphen.
IsSep(c) == c \in Space \cup {"-"}

RECURSIVE CollapseSeps(_)
CollapseSeps(s) ==
    IF s = <<>> THEN <<>>
    ELSE IF IsSep(Head(s))
         THEN IF Tail(s) # <<>> /\ IsSep(Head(Tail(s)))
              THEN CollapseSeps(Tail(s))
              ELSE <<"-">> \o CollapseSeps(Tail(s))
         ELSE <<Head(s)>> \o CollapseSeps(Tail(s))

\* .strip("-_")
RECURSIVE StripLeft(_)
StripLeft(s) ==
    IF s # <<>> /\ Head(s) \in {"-", "_"} THEN StripLeft(Tail(s)) ELSE s

RECURSIVE StripRight(_)
StripRight(s) ==
    IF s # <<>> /\ s[Len(s)] \in {"-", "_"}
    THEN StripRight(SubSeq(s, 1, Len(s) - 1))
    ELSE s

Slugify(title) ==
    StripRight(StripLeft(CollapseSeps(RemoveUnkept(LowerAll(AsciiIgnore(title))))))

\* str(counter) inside the f-string of Post.save
RECURSIVE IntToStr(_)
IntToStr(n) ==
    LET d == <<"0", "1", "2", "3", "4", "5", "6", "7", "8", "9">>[(n % 10) + 1]
    IN  IF n < 10 THEN <<d>> ELSE IntToStr(n \div 10) \o <<d>>

\* f"{base_slug}-{counter}"
Candidate(base, counter) == base \o <<"-">> \o IntToStr(counter)

(***************************************************************************)
(* Inputs of the requests.                                                 *)
(***************************************************************************)
HelloWorldPunct == <<"H", ",", " ", "W", "!">>
HelloWorld == <<"H", " ", "W">>
Punct == <<"!">>
Titles == {HelloWorldPunct, HelloWorld, Punct}

\* Titles with an underscore and with letters outside ASCII.
Underscored == <<"H", "_", "W">>
UnderscoreFirst == <<"_", "H">>
Cjk == <<"U+65E5">>
CjkWord == <<"U+65E5", " ", "W">>
WordTitles == {Underscored, UnderscoreFirst, Cjk, CjkWord, HelloWorldPunct}

\* A field the request does not carry.
NoSlug == <<>>
NoTitle == <<"?">>

SlugA == <<"h", "-", "w">>
SlugB == <<"h", "-", "w", "-", "1">>

\* The (title, slug) pairs of the create requests: every title without a
\* slug, and one title with each of two slugs the collision loop would try.
CreateInputs == {<<t, NoSlug>> : t \in Titles} \cup {<<HelloWorld, SlugA>>, <<HelloWorld, SlugB>>}

\* The (title, slug) pairs of the update requests (PUT and PATCH).
UpdateInputs == {<<Punct, NoSlug>>, <<NoTitle, SlugA>>, <<NoTitle, SlugB>>}

\* Creations of the titles of WordTitles, one of them with a slug.
WordInputs == {<<t, NoSlug>> : t \in WordTitles} \cup {<<Underscored, SlugA>>}

\* The callers of the post endpoints: one user and the anonymous caller.
Callers == {1, Anon}

\* Two users and the anonymous caller, and the requests they make where the
\* question is who may read and write which post.
AccessCallers == {1, 2, Anon}
AccessCreateInputs == {<<HelloWorld, SlugA>>, <<HelloWorld, SlugB>>}
AccessUpdateInputs == {<<Punct, NoSlug>>}

NoInst == [id |-> 0, author |-> Anon, title |-> <<>>, slug |-> <<>>, is_published |-> FALSE]

\* by and got: the caller of a read request and the posts in its answer.
IdleReq == [pc |-> "idle", op |-> "none", inst |-> NoInst, given |-> NoSlug,
            slug |-> <<>>, counter |-> 0, status |-> 0, by |-> Anon, got |-> {}]

Answer(op, status) == [IdleReq EXCEPT !.pc = "done", !.op = op, !.status = status]

(***************************************************************************)
(* The Post table.                                                         *)
(***************************************************************************)
Slugs == {p.slug : p \in posts}

\* Post.objects.filter(slug=slug).exists()
SlugExists(s) == s \in Slugs

\* slug = models.SlugField(unique=True, ...): the table's unique constraint,
\* checked by the database at INSERT and UPDATE; id is the row being written
\* (0 for a new row).
SlugUniqueOff(id, s) == TRUE
SlugUnique(id, s) == \A p \in posts : p.slug = s => p.id = id

\* The UniqueValidator a ModelSerializer puts on a unique field; it runs in
\* is_valid(), before save, and excludes the instance being updated.
ValidatorAccepts(id, s) == \A p \in posts : p.slug = s => p.id = id

\* PostViewSet.get_queryset
VisibleToAll(u, p) == TRUE
Visible(u, p) == p.is_published \/ (u # Anon /\ p.author = u)

\* IsAuthorOrReadOnly.has_object_permission for an unsafe method
EveryoneIsAuthor(u, p) == TRUE
IsAuthor(u, p) == p.author = u

\* `while Post.objects.filter(slug=slug).exists:` tests the bound method
\* object, which is always true; the query is never run.
ExistsCalled(s) == SlugExists(s)
LoopCond(s) == TRUE

\* `if not self.slug:`
ReslugWhenTitleDiffers(inst) == inst.slug = <<>> \/ inst.slug # Slugify(inst.title)
NeedsSlug(inst) == inst.slug = <<>>

\* Post.save, lines 47-50: the request record at the first test of the while
\* condition, or at super().save() when the instance has a slug.
EnterSave(rec) ==
    IF NeedsSlug(rec.inst)
    THEN [rec EXCEPT !.pc = "loop", !.slug = Slugify(rec.inst.title), !.counter = 1]
    ELSE [rec EXCEPT !.pc = "write"]

\* Each element of Reqs is one request; requests arrive in the order of Reqs
\* and run concurrently from then on.
Takes(r) == req[r].pc = "idle" /\ \A q \in Reqs : q < r => req[q].pc # "idle"

SetReq(r, rec) == req' = [req EXCEPT ![r] = rec]

(***************************************************************************)
(* POST /posts/ : PostViewSet.create with PostCreateSerializer, up to the  *)
(* first database access of Post.save.                                     *)
(***************************************************************************)
CreateBegin(r, u, t, s) ==
    /\ Takes(r)
    /\ IF u = Anon
       THEN SetReq(r, Answer("create", 401))
       ELSE IF s # NoSlug /\ ~ValidatorAccepts(0, s)
       THEN SetReq(r, Answer("create", 400))
       ELSE SetReq(r, EnterSave([IdleReq EXCEPT
                         !.op = "create", !.given = s,
                         !.inst = [id |-> 0, author |-> u, title |-> t,
                                   slug |-> s, is_published |-> TRUE]]))
    /\ UNCHANGED <<posts, nextId, authVars>>

(***************************************************************************)
(* Post.save, lines 53-57: one test of the while condition, and either one *)
(* pass through the body or the exit with self.slug = slug.                *)
(***************************************************************************)
LoopStep(r) ==
    /\ req[r].pc = "loop"
    /\ IF LoopCond(req[r].slug)
       THEN /\ req[r].counter < MaxCounter
            /\ SetReq(r, [req[r] EXCEPT
                            !.slug = Candidate(Slugify(req[r].inst.title), req[r].counter),
                            !.counter = req[r].counter + 1])
       ELSE SetReq(r, [req[r] EXCEPT !.pc = "write",
                                     !.inst = [req[r].inst EXCEPT !.slug = req[r].slug]])
    /\ UNCHANGED <<posts, nextId, authVars>>

(***************************************************************************)
(* super().save(): INSERT of a new row or UPDATE of all fields of an       *)
(* existing one, under the unique constraint on slug.  A violation raises  *)
(* IntegrityError, which no handler catches: the response is a 500.        *)
(***************************************************************************)
Write(r) ==
    /\ req[r].pc = "write"
    /\ LET inst == req[r].inst IN
       IF ~SlugUnique(inst.id, inst.slug)
       THEN /\ SetReq(r, Answer(req[r].op, 500))
            /\ UNCHANGED <<posts, nextId, authVars>>
       ELSE IF inst.id = 0
       THEN /\ nextId <= MaxPosts
            /\ posts' = posts \cup {[inst EXCEPT !.id = nextId]}
            /\ nextId' = nextId + 1
            /\ SetReq(r, Answer(req[r].op, 201))
            /\ UNCHANGED authVars
       ELSE /\ posts' = {p \in posts : p.id # inst.id} \cup {inst}
            /\ SetReq(r, Answer(req[r].op, 200))
            /\ UNCHANGED <<nextId, authVars>>

(***************************************************************************)
(* PUT/PATCH /posts/<slug>/ : permissions, get_object, PostUpdateSerializer*)
(* validation and the assignment of the validated fields to the instance,  *)
(* up to super().save().  t = NoTitle, s = NoSlug: the field is not sent.  *)
(***************************************************************************)
UpdateBegin(r, u, p, t, s) ==
    /\ Takes(r)
    /\ IF u = Anon
       THEN SetReq(r, Answer("update", 401))
       ELSE IF ~Visible(u, p)
       THEN SetReq(r, Answer("update", 404))
       ELSE IF ~IsAuthor(u, p)
       THEN SetReq(r, Answer("update", 403))
       ELSE IF s # NoSlug /\ ~ValidatorAccepts(p.id, s)
       THEN SetReq(r, Answer("update", 400))
       ELSE SetReq(r, EnterSave([IdleReq EXCEPT
                         !.op = "update", !.given = s,
                         !.inst = [p EXCEPT
                                     !.title = IF t = NoTitle THEN p.title ELSE t,
                                     !.slug = IF s = NoSlug THEN p.slug ELSE s]]))
    /\ UNCHANGED <<posts, nextId, authVars>>

\* post.is_published = not post.is_published
Unpublished(p) == [p EXCEPT !.is_published = FALSE]
Toggled(p) == [p EXCEPT !.is_published = ~p.is_published]

(***************************************************************************)
(* POST /posts/<slug>/toggle_publish/ up to super().save().                *)
(***************************************************************************)
ToggleBegin(r, u, p) ==
    /\ Takes(r)
    /\ IF u = Anon
       THEN SetReq(r, Answer("toggle", 401))
       ELSE IF ~Visible(u, p)
       THEN SetReq(r, Answer("toggle", 404))
       ELSE IF p.author # u
       THEN SetReq(r, Answer("toggle", 403))
       ELSE SetReq(r, EnterSave([IdleReq EXCEPT !.op = "toggle", !.inst = Toggled(p)]))
    /\ UNCHANGED <<posts, nextId, authVars>>

(***************************************************************************)
(* GET /posts/ : the rows of get_queryset for the caller.  The filter      *)
(* backends narrow the queryset and never widen it; the request here       *)
(* carries no filter.                                                      *)
(***************************************************************************)
Read(op, u, rows) == [Answer(op, 200) EXCEPT !.by = u, !.got = rows]

List(r, u) ==
    /\ Takes(r)
    /\ SetReq(r, Read("list", u, {p \in posts : Visible(u, p)}))
    /\ UNCHANGED <<posts, nextId, authVars>>

(***************************************************************************)
(* GET /posts/<slug>/ : get_object looks the slug up in get_queryset.      *)
(***************************************************************************)
Retrieve(r, u, p) ==
    /\ Takes(r)
    /\ IF ~Visible(u, p)
       THEN SetReq(r, [Answer("retrieve", 404) EXCEPT !.by = u])
       ELSE SetReq(r, Read("retrieve", u, {p}))
    /\ UNCHANGED <<posts, nextId, authVars>>

(***************************************************************************)
(* GET /posts/recent/ : get_queryset().filter(is_published=True)[:10]; the *)
(* table of the model never holds ten posts.                               *)
(***************************************************************************)
Recent(r, u) ==
    /\ Takes(r)
    /\ SetReq(r, Read("recent", u, {p \in posts : Visible(u, p) /\ p.is_published}))
    /\ UNCHANGED <<posts, nextId, authVars>>

(***************************************************************************)
(* GET /posts/my_posts/ : get_permissions ignores the permission_classes   *)
(* of the decorator, so the anonymous caller reaches the body, where       *)
(* AnonymousUser has no attribute posts: a 500.                            *)
(***************************************************************************)
MyPosts(r, u) ==
    /\ Takes(r)
    /\ IF u = Anon
       THEN SetReq(r, [Answer("my_posts", 500) EXCEPT !.by = u])
       ELSE SetReq(r, Read("my_posts", u, {p \in posts : p.author = u}))
    /\ UNCHANGED <<posts, nextId, authVars>>

(***************************************************************************)
(* DELETE /posts/<slug>/ : IsAuthenticated, get_object, IsAuthorOrReadOnly *)
(* on the object, then instance.delete().                                  *)
(***************************************************************************)
DestroyPost(r, u, p) ==
    /\ Takes(r)
    /\ IF u = Anon
       THEN SetReq(r, [Answer("destroy", 401) EXCEPT !.by = u]) /\ UNCHANGED posts
       ELSE IF ~Visible(u, p)
       THEN SetReq(r, [Answer("destroy", 404) EXCEPT !.by = u]) /\ UNCHANGED posts
       ELSE IF ~IsAuthor(u, p)
       THEN SetReq(r, [Answer("destroy", 403) EXCEPT !.by = u]) /\ UNCHANGED posts
       ELSE /\ SetReq(r, [Answer("destroy", 204) EXCEPT !.by = u])
            /\ posts' = {q \in posts : q.id # p.id}
    /\ UNCHANGED <<nextId, authVars>>

(***************************************************************************)
(* customusers/authentication.py: users, tokens and the blacklist.         *)
(*                                                                         *)
(* A refresh token is [jti, user, exp, username, email, claims]; an access  *)
(* token is [parent, user, exp, username, email, claims], parent being the *)
(* jti of the refresh token it was minted from (a record of the model, not *)
(* a claim of the token).  user is the user_id claim that for_user sets;   *)
(* claims is the set of names of the user claims in the payload, username  *)
(* and email the values of those two (NoClaim when absent); the is_staff   *)
(* claim, when present, is False, no endpoint creating staff.  The         *)
(* login_time and refresh_time claims are left out.  accessTokens holds,   *)
(* for each refresh token, the access token last minted from it: the one   *)
(* its client holds and presents.                                          *)
(* loggedOut records the jtis for which logout has answered                *)
(* "Successfully logged out".  throttle is the rate configured for the     *)
(* scopes login, register and password_reset, and the cache of the         *)
(* throttles: for each scope the times of the requests let through.        *)
(***************************************************************************)
AccessLifetime == 1
RefreshLifetime == 2

Usernames == {"alice", "bob"}
Emails == {"alice@x.com"}
GoodPassword == "Str0ng!Pass"
WeakPassword == "a"
OtherPassword == "b"

\* set_password / check_password
Hash(pw) == <<"hashed", pw>>
CheckPassword(pw, h) == h = Hash(pw)

\* validate_password, the validator of UserCreateSerializer.password
Strong(pw) == pw = GoodPassword

\* UserCreateSerializer.validate
PasswordsNotCompared(pw, confirm) == TRUE
PasswordsMatch(pw, confirm) == pw = confirm

\* What a client can send where a refresh token is expected.
Missing == [jti |-> -1, user |-> 0, exp |-> 0, username |-> "", email |-> "", claims |-> {}]
Garbage == [jti |-> 0, user |-> 0, exp |-> 0, username |-> "", email |-> "", claims |-> {}]
RefreshInputs == refreshTokens \cup {Missing, Garbage}

\* `if refresh_token:` of logout, `if not refresh_token:` of refresh_token
SuppliedAlways(t) == TRUE
Supplied(t) == t # Missing

\* What a client can send in the Authorization header.
NoHeader == [parent |-> -1, user |-> 0, exp |-> 0, username |-> "", email |-> "", claims |-> {}]
BadHeader == [parent |-> 0, user |-> 0, exp |-> 0, username |-> "", email |-> "", claims |-> {}]
HeaderInputs == accessTokens \cup {NoHeader, BadHeader}

NoClaim == ""

\* UserSerializer(user).data: of the fields of the model's user records, the
\* serializer lists id, username, email and is_active.
NoUserData == [id |-> 0, username |-> "", email |-> "", is_active |-> FALSE]
UserRow(u) == u
UserData(u) == [id |-> u.id, username |-> u.username, email |-> u.email,
                is_active |-> u.is_active]

\* The last request and its answer: the endpoint (op), the status and body of
\* the answer, the refresh token (jti) and Authorization header (hdr) or the
\* credentials (sent) of the request, the refresh tokens the answer carries
\* (issued), the id of the user it names (uid) and the user data in it (user).
NoResponse == [op |-> "none", status |-> 0, body |-> "", jti |-> -1, hdr |-> NoHeader,
               issued |-> {}, uid |-> 0, sent |-> <<>>, user |-> NoUserData]

Response(op, status, body) == [NoResponse EXCEPT !.op = op, !.status = status, !.body = body]

\* RefreshToken(token): the signature and format, the expiry and, when the
\* token_blacklist application is installed, the blacklist are verified; any
\* failure raises TokenError.  Whether the application is installed is a
\* setting of the deployment (blacklistApp), fixed from the start.
RefreshTokenNeverExpires(t) ==
    /\ t \in refreshTokens
    /\ blacklistApp => t.jti \notin blacklist
RefreshTokenOk(t) ==
    /\ t \in refreshTokens
    /\ now < t.exp
    /\ blacklistApp => t.jti \notin blacklist

\* token.blacklist(); without the token_blacklist application RefreshToken has
\* no such method and the call raises AttributeError.
BlacklistNothing(bl, jti) == bl
BlacklistToken(bl, jti) == bl \cup {jti}

\* JWTAuthentication on the Authorization header: the access token's
\* signature and expiry, and an active user with the token's user id.
AccessValidUnlessRevoked(a) ==
    /\ a \in accessTokens
    /\ now < a.exp
    /\ \E u \in users : u.id = a.user /\ u.is_active
    /\ a.parent \notin blacklist
AccessValid(a) ==
    /\ a \in accessTokens
    /\ now < a.exp
    /\ \E u \in users : u.id = a.user /\ u.is_active

\* A request whose Authorization header does not authenticate is answered
\* 401 by the framework before the view runs.
HeaderRejected(a) == a # NoHeader /\ ~AccessValid(a)

\* User.bio: blank at registration, and what an update can send
NoBio == ""
Bios == {"hello"}

\* `if self.get_object() != self.request.user` of perform_update
AnyoneIsSelf(a, id) == TRUE
IsSelf(a, id) == a.user = id

\* last_login of a user who has never logged in (None)
NeverLoggedIn == -1

\* RefreshToken.for_user(user): the user_id claim and no other user claim
ForUser(u) == [jti |-> nextJti, user |-> u.id, exp |-> now + RefreshLifetime,
               username |-> NoClaim, email |-> NoClaim, claims |-> {"user_id"}]

\* CustomTokenObtainPairSerializer.get_token(user): for_user and the custom
\* claims, is_staff among them, set on the refresh token
GetToken(u) == [ForUser(u) EXCEPT !.username = u.username, !.email = u.email,
                                  !.claims = {"user_id", "username", "email", "is_staff"}]

\* refresh.access_token alone: a new access token with a copy of the claims
\* of the refresh token
BareAccess(t) == [parent |-> t.jti, user |-> t.user, exp |-> now + AccessLifetime,
                  username |-> t.username, email |-> t.email, claims |-> t.claims]

\* refresh.access_token followed by the custom claims of login, register and
\* refresh_token: username, email and user_id, never is_staff
AccessFor(t, u) == [BareAccess(t) EXCEPT !.username = u.username, !.email = u.email,
                                         !.claims = @ \cup {"username", "email", "user_id"}]

\* The client of refresh token t replaces its access token by the new one.
Held(acc, t, a) == {x \in acc : x.parent # t.jti} \cup {a}

\* The Authorization headers a client sends along with refresh token t: none,
\* an unusable one, or the access token of the same session.
HeadersWith(t) == {NoHeader, BadHeader} \cup {a \in accessTokens : a.parent = t.jti}

(***************************************************************************)
(* LoginRateThrottle, RegisterRateThrottle, PasswordResetRateThrottle:     *)
(* AnonRateThrottle with a scope of its own.  The rate of a scope is a     *)
(* setting: None (no throttling, nothing is cached) or a number of         *)
(* requests per window.  The cache key is made of the scope and the        *)
(* address of the client, and there is none for an authenticated request.  *)
(* The requests of the model come from one address.                        *)
(***************************************************************************)
Scopes == {"login", "register", "password_reset"}

\* a rate of None
Unlimited == 0

\* the rate and the duration of its window, as parse_rate returns them
ThrottleRate == 2
ThrottleWindow == 1

NoThrottle == [rate |-> Unlimited, history |-> [k \in Scopes |-> <<>>]]
Throttled == [rate |-> ThrottleRate, history |-> [k \in Scopes |-> <<>>]]

\* AnonRateThrottle.get_cache_key: None for an authenticated request
HasCacheKey(a) == a = NoHeader

\* the `while self.history and self.history[-1] <= self.now - self.duration`
\* loop of SimpleRateThrottle.allow_request
Pruned(h) == SelectSeq(h, LAMBDA t : t > now - ThrottleWindow)

\* SimpleRateThrottle.allow_request
ThrottleAllows(scope, a) ==
    \/ throttle.rate = Unlimited
    \/ ~HasCacheKey(a)
    \/ Len(Pruned(throttle.history[scope])) < throttle.rate

\* SimpleRateThrottle.throttle_success: the cache after a request let through
ThrottleSuccess(scope, a) ==
    IF throttle.rate = Unlimited \/ ~HasCacheKey(a)
    THEN throttle
    ELSE [throttle EXCEPT !.history[scope] = <<now>> \o Pruned(@)]

\* The (username, email, password, password_confirm) of the register requests:
\* each username with a valid password, and the two invalid password pairs.
RegisterInputs ==
    {<<n, e, GoodPassword, GoodPassword>> : n \in Usernames, e \in Emails}
       \cup {<<"bob", "alice@x.com", GoodPassword, OtherPassword>>,
             <<"bob", "alice@x.com", WeakPassword, WeakPassword>>}

\* The (username, password) of the login requests: a username, an email or an
\* unknown name with the right or a wrong password, and the empty fields.
LoginInputs ==
    ((Usernames \cup Emails) \X {GoodPassword, OtherPassword})
       \cup {<<"nobody", GoodPassword>>, <<"", GoodPassword>>, <<"alice", "">>}

\* The requests of the account life: bob may also register, and log in, with
\* an email of his own.
AccountRegisterInputs ==
    RegisterInputs \cup {<<"bob", "bob@x.com", GoodPassword, GoodPassword>>}
AccountLoginInputs == LoginInputs \cup {<<"bob@x.com", GoodPassword>>}

\* django.contrib.auth.authenticate(username=, password=) with ModelBackend:
\* the set of users it can return (at most one, username being unique).
AuthenticateInactiveToo(name, pw) ==
    {u \in users : u.username = name /\ CheckPassword(pw, u.password)}
Authenticate(name, pw) ==
    {u \in users : u.username = name /\ CheckPassword(pw, u.password) /\ u.is_active}

(***************************************************************************)
(* POST auth/register/ with Authorization header a.  The framework         *)
(* authenticates the request and asks the throttle before register runs.   *)
(***************************************************************************)
RegisterBy(a, name, email, pw, confirm) ==
    /\ IF HeaderRejected(a)
       THEN /\ last' = [Response("register", 401, "authentication failed")
                          EXCEPT !.hdr = a, !.sent = <<name, email, pw, confirm>>]
            /\ UNCHANGED <<users, nextUid, refreshTokens, nextJti, accessTokens, throttle>>
       ELSE IF ~ThrottleAllows("register", a)
       THEN /\ last' = [Response("register", 429, "Request was throttled")
                          EXCEPT !.hdr = a, !.sent = <<name, email, pw, confirm>>]
            /\ UNCHANGED <<users, nextUid, refreshTokens, nextJti, accessTokens, throttle>>
       ELSE IF \/ \E u \in users : u.username = name
               \/ ~Strong(pw)
               \/ ~PasswordsMatch(pw, confirm)
       THEN /\ last' = [Response("register", 400, "validation errors")
                          EXCEPT !.hdr = a, !.sent = <<name, email, pw, confirm>>]
            /\ throttle' = ThrottleSuccess("register", a)
            /\ UNCHANGED <<users, nextUid, refreshTokens, nextJti, accessTokens>>
       ELSE /\ nextUid <= MaxUsers
            /\ nextJti <= MaxTokens
            /\ LET u == [id |-> nextUid, username |-> name, email |-> email,
                         password |-> Hash(pw), is_active |-> TRUE, is_staff |-> FALSE,
                         last_login |-> NeverLoggedIn, bio |-> NoBio]
                   t == ForUser(u)
               IN  /\ users' = users \cup {u}
                   /\ refreshTokens' = refreshTokens \cup {t}
                   /\ accessTokens' = Held(accessTokens, t, AccessFor(t, u))
                   /\ last' = [Response("register", 201, "User registered successfully")
                                 EXCEPT !.hdr = a, !.issued = {t.jti}, !.uid = u.id,
                                        !.sent = <<name, email, pw, confirm>>,
                                        !.user = UserData(u)]
            /\ throttle' = ThrottleSuccess("register", a)
            /\ nextUid' = nextUid + 1
            /\ nextJti' = nextJti + 1
    /\ UNCHANGED <<postVars, blacklist, now, loggedOut, blacklistApp>>

\* The registration of a client that sends no Authorization header.
Register(name, email, pw, confirm) == RegisterBy(NoHeader, name, email, pw, confirm)

(***************************************************************************)
(* POST auth/login/ with Authorization header a                            *)
(***************************************************************************)
LoginBy(a, ident, pw) ==
    /\ IF HeaderRejected(a)
       THEN /\ last' = [Response("login", 401, "authentication failed")
                          EXCEPT !.hdr = a, !.sent = <<ident, pw>>]
            /\ UNCHANGED <<users, refreshTokens, nextJti, accessTokens, throttle>>
       ELSE IF ~ThrottleAllows("login", a)
       THEN /\ last' = [Response("login", 429, "Request was throttled")
                          EXCEPT !.hdr = a, !.sent = <<ident, pw>>]
            /\ UNCHANGED <<users, refreshTokens, nextJti, accessTokens, throttle>>
       ELSE IF ident = "" \/ pw = ""
       THEN /\ last' = [Response("login", 400, "Username/email and password are required")
                          EXCEPT !.hdr = a, !.sent = <<ident, pw>>]
            /\ throttle' = ThrottleSuccess("login", a)
            /\ UNCHANGED <<users, refreshTokens, nextJti, accessTokens>>
       ELSE LET first == Authenticate(ident, pw)
                byEmail == {u \in users : u.email = ident /\ u.is_active}
                \* User.objects.get raises MultipleObjectsReturned for several
                \* rows; the outer `except Exception` turns it into the 401.
                found == IF first # {} THEN first
                         ELSE IF Cardinality(byEmail) = 1
                              THEN UNION {Authenticate(u.username, pw) : u \in byEmail}
                              ELSE {}
            IN  IF found = {}
                THEN /\ last' = [Response("login", 401,
                                            "Invalid credentials or inactive account")
                                     EXCEPT !.hdr = a, !.sent = <<ident, pw>>]
                     /\ throttle' = ThrottleSuccess("login", a)
                     /\ UNCHANGED <<users, refreshTokens, nextJti, accessTokens>>
                ELSE /\ nextJti <= MaxTokens
                     /\ \E u \in found :
                          LET t == ForUser(u) IN
                          /\ refreshTokens' = refreshTokens \cup {t}
                          /\ accessTokens' = Held(accessTokens, t, AccessFor(t, u))
                          /\ users' = (users \ {u}) \cup {[u EXCEPT !.last_login = now]}
                          /\ last' = [Response("login", 200, "Login successful")
                                        EXCEPT !.hdr = a, !.issued = {t.jti}, !.uid = u.id,
                                               !.sent = <<ident, pw>>,
                                               !.user = UserData(u)]
                     /\ throttle' = ThrottleSuccess("login", a)
                     /\ nextJti' = nextJti + 1
    /\ UNCHANGED <<postVars, nextUid, blacklist, now, loggedOut, blacklistApp>>

\* The login of a client that sends no Authorization header.
Login(ident, pw) == LoginBy(NoHeader, ident, pw)

(***************************************************************************)
(* POST token/ : CustomTokenObtainPairView.  The serializer authenticates  *)
(* by username alone, takes the pair from get_token, and sets last_login.  *)
(* The view has the throttle of login, scope and cache key included; the   *)
(* request carries no Authorization header.                                *)
(***************************************************************************)
TokenObtain(name, pw) ==
    /\ IF ~ThrottleAllows("login", NoHeader)
       THEN /\ last' = [Response("token", 429, "Request was throttled")
                          EXCEPT !.sent = <<name, pw>>]
            /\ UNCHANGED <<users, refreshTokens, nextJti, accessTokens, throttle>>
       ELSE IF name = "" \/ pw = ""
       THEN /\ last' = [Response("token", 400, "This field may not be blank")
                          EXCEPT !.sent = <<name, pw>>]
            /\ throttle' = ThrottleSuccess("login", NoHeader)
            /\ UNCHANGED <<users, refreshTokens, nextJti, accessTokens>>
       ELSE IF Authenticate(name, pw) = {}
       THEN /\ last' = [Response("token", 401, "No active account found")
                          EXCEPT !.sent = <<name, pw>>]
            /\ throttle' = ThrottleSuccess("login", NoHeader)
            /\ UNCHANGED <<users, refreshTokens, nextJti, accessTokens>>
       ELSE /\ nextJti <= MaxTokens
            /\ throttle' = ThrottleSuccess("login", NoHeader)
            /\ \E u \in Authenticate(name, pw) :
                 LET t == GetToken(u) IN
                 /\ refreshTokens' = refreshTokens \cup {t}
                 /\ accessTokens' = Held(accessTokens, t, BareAccess(t))
                 /\ users' = (users \ {u}) \cup {[u EXCEPT !.last_login = now]}
                 /\ last' = [Response("token", 200, "access, refresh and user")
                               EXCEPT !.issued = {t.jti}, !.uid = u.id, !.sent = <<name, pw>>,
                                      !.user = UserData(u)]
            /\ nextJti' = nextJti + 1
    /\ UNCHANGED <<postVars, nextUid, blacklist, now, loggedOut, blacklistApp>>

(***************************************************************************)
(* POST auth/logout/ with Authorization header a and body {refresh: t}     *)
(***************************************************************************)
Logout(a, t) ==
    /\ IF HeaderRejected(a)
       THEN /\ last' = [Response("logout", 401, "authentication failed")
                          EXCEPT !.jti = t.jti, !.hdr = a]
            /\ UNCHANGED <<blacklist, loggedOut>>
       ELSE IF ~Supplied(t)
       THEN /\ last' = [Response("logout", 400, "Refresh token required")
                          EXCEPT !.jti = t.jti, !.hdr = a]
            /\ UNCHANGED <<blacklist, loggedOut>>
       ELSE IF ~RefreshTokenOk(t) \/ ~blacklistApp
       THEN /\ last' = [Response("logout", 400, "Invalid token")
                          EXCEPT !.jti = t.jti, !.hdr = a]
            /\ UNCHANGED <<blacklist, loggedOut>>
       ELSE /\ blacklist' = BlacklistToken(blacklist, t.jti)
            /\ loggedOut' = loggedOut \cup {t.jti}
            /\ last' = [Response("logout", 200, "Successfully logged out")
                          EXCEPT !.jti = t.jti, !.hdr = a]
    /\ UNCHANGED <<postVars, users, nextUid, refreshTokens, nextJti, accessTokens, now,
                   blacklistApp, throttle>>

(***************************************************************************)
(* GET auth/verify/ with Authorization header a                            *)
(***************************************************************************)
VerifyToken(a) ==
    /\ IF HeaderRejected(a)
       THEN last' = [Response("verify", 401, "authentication failed") EXCEPT !.hdr = a]
       ELSE IF a = NoHeader
       THEN last' = [Response("verify", 401, "valid: False") EXCEPT !.hdr = a]
       ELSE \E u \in {v \in users : v.id = a.user} :
               last' = [Response("verify", 200, "valid: True")
                          EXCEPT !.hdr = a, !.uid = u.id, !.user = UserData(u)]
    /\ UNCHANGED <<postVars, users, nextUid, refreshTokens, nextJti, accessTokens,
                   blacklist, now, loggedOut, blacklistApp, throttle>>

(***************************************************************************)
(* GET users/me/ with Authorization header a.  get_permissions does not    *)
(* read the permission_classes of the action: the request is checked with  *)
(* IsAuthenticatedOrReadOnly, which lets an anonymous GET through.  The    *)
(* view then serializes AnonymousUser, and get_posts_count fails on        *)
(* obj.posts with an AttributeError nothing handles.                       *)
(***************************************************************************)
Me(a) ==
    /\ IF HeaderRejected(a)
       THEN last' = [Response("me", 401, "authentication failed") EXCEPT !.hdr = a]
       ELSE IF a = NoHeader
       THEN last' = [Response("me", 500, "AttributeError") EXCEPT !.hdr = a]
       ELSE \E u \in {v \in users : v.id = a.user} :
               last' = [Response("me", 200, "profile")
                          EXCEPT !.hdr = a, !.uid = u.id, !.user = UserData(u)]
    /\ UNCHANGED <<postVars, users, nextUid, refreshTokens, nextJti, accessTokens,
                   blacklist, now, loggedOut, blacklistApp, throttle>>

(***************************************************************************)
(* POST auth/refresh/ with body {refresh: t}                               *)
(***************************************************************************)
RefreshTokenView(t) ==
    /\ IF ~Supplied(t)
       THEN /\ last' = [Response("refresh", 400, "Refresh token required") EXCEPT !.jti = t.jti]
            /\ UNCHANGED accessTokens
       ELSE IF ~RefreshTokenOk(t)
       THEN /\ last' = [Response("refresh", 401, "Invalid refresh token") EXCEPT !.jti = t.jti]
            /\ UNCHANGED accessTokens
       ELSE LET owner == {u \in users : u.id = t.user}
            IN  /\ \E a \in IF owner = {} THEN {BareAccess(t)}
                             ELSE {AccessFor(t, u) : u \in owner} :
                                accessTokens' = Held(accessTokens, t, a)
                /\ last' = [Response("refresh", 200, "access and refresh")
                              EXCEPT !.jti = t.jti, !.issued = {t.jti}, !.uid = t.user]
    /\ UNCHANGED <<postVars, users, nextUid, refreshTokens, nextJti, blacklist, now, loggedOut, blacklistApp, throttle>>

(***************************************************************************)
(* POST auth/password-reset/ with Authorization header a.  The handler     *)
(* catches User.DoesNotExist alone: when several active users have the     *)
(* email, get raises MultipleObjectsReturned and the answer is a 500.      *)
(***************************************************************************)
PasswordResetBy(a, email) ==
    /\ IF HeaderRejected(a)
       THEN /\ last' = [Response("password_reset", 401, "authentication failed")
                          EXCEPT !.hdr = a, !.sent = <<email>>]
            /\ UNCHANGED throttle
       ELSE IF ~ThrottleAllows("password_reset", a)
       THEN /\ last' = [Response("password_reset", 429, "Request was throttled")
                          EXCEPT !.hdr = a, !.sent = <<email>>]
            /\ UNCHANGED throttle
       ELSE /\ throttle' = ThrottleSuccess("password_reset", a)
            /\ LET active == {u \in users : u.email = email /\ u.is_active} IN
               IF email = ""
               THEN last' = [Response("password_reset", 400, "Email is required")
                               EXCEPT !.hdr = a, !.sent = <<email>>]
               ELSE IF Cardinality(active) > 1
               THEN last' = [Response("password_reset", 500, "MultipleObjectsReturned")
                               EXCEPT !.hdr = a, !.sent = <<email>>]
               ELSE last' = [Response("password_reset", 200,
                                      "If an account with this email exists, you will receive password reset instructions.")
                               EXCEPT !.hdr = a, !.sent = <<email>>]
    /\ UNCHANGED <<postVars, users, nextUid, refreshTokens, nextJti, accessTokens, blacklist,
                   now, loggedOut, blacklistApp>>

(***************************************************************************)
(* PUT/PATCH users/<id>/ with Authorization header a and a bio.            *)
(* get_permissions asks IsAuthenticated; update looks the target up among  *)
(* the active users and validates; perform_update raises PermissionDenied  *)
(* unless the target is the user of the request, and saves otherwise.      *)
(***************************************************************************)
UpdateUser(a, id, bio) ==
    /\ IF HeaderRejected(a)
       THEN /\ last' = [Response("update_user", 401, "authentication failed")
                          EXCEPT !.hdr = a, !.uid = id]
            /\ UNCHANGED users
       ELSE IF a = NoHeader
       THEN /\ last' = [Response("update_user", 401, "credentials were not provided")
                          EXCEPT !.hdr = a, !.uid = id]
            /\ UNCHANGED users
       ELSE IF ~\E u \in users : u.id = id /\ u.is_active
       THEN /\ last' = [Response("update_user", 404, "Not found") EXCEPT !.hdr = a, !.uid = id]
            /\ UNCHANGED users
       ELSE IF ~IsSelf(a, id)
       THEN /\ last' = [Response("update_user", 403, "You can only update your own profile")
                          EXCEPT !.hdr = a, !.uid = id]
            /\ UNCHANGED users
       ELSE /\ users' = {IF u.id = id THEN [u EXCEPT !.bio = bio] ELSE u : u \in users}
            /\ last' = [Response("update_user", 200, "") EXCEPT !.hdr = a, !.uid = id]
    /\ UNCHANGED <<postVars, nextUid, refreshTokens, nextJti, accessTokens, blacklist, now,
                   loggedOut, blacklistApp, throttle>>

(***************************************************************************)
(* DELETE users/<id>/ with Authorization header a: the destroy of          *)
(* ModelViewSet.  get_permissions asks IsAuthenticated and nothing more;   *)
(* the target is looked up among the active users; the delete cascades to  *)
(* the user's posts (Post.author).  No token is touched.                   *)
(***************************************************************************)
Destroy(a, id) ==
    /\ IF HeaderRejected(a)
       THEN /\ last' = [Response("destroy", 401, "authentication failed") EXCEPT !.hdr = a]
            /\ UNCHANGED <<users, posts>>
       ELSE IF a = NoHeader
       THEN /\ last' = [Response("destroy", 401, "credentials were not provided")
                          EXCEPT !.hdr = a]
            /\ UNCHANGED <<users, posts>>
       ELSE IF ~\E u \in users : u.id = id /\ u.is_active
       THEN /\ last' = [Response("destroy", 404, "Not found") EXCEPT !.hdr = a, !.uid = id]
            /\ UNCHANGED <<users, posts>>
       ELSE /\ users' = {u \in users : u.id # id}
            /\ posts' = {p \in posts : p.author # id}
            /\ last' = [Response("destroy", 204, "") EXCEPT !.hdr = a, !.uid = id]
    /\ UNCHANGED <<nextId, req, nextUid, refreshTokens, nextJti, accessTokens, blacklist, now,
                   loggedOut, blacklistApp, throttle>>

(***************************************************************************)
(* An account is disabled: is_active, a field User inherits, is set to     *)
(* False.  No endpoint does it (UserSerializer has the field read-only);   *)
(* it is done on the database, and login, verify and the user list all     *)
(* treat the inactive account as a case of their own.                      *)
(***************************************************************************)
Deactivate(u) ==
    /\ u.is_active
    /\ users' = (users \ {u}) \cup {[u EXCEPT !.is_active = FALSE]}
    /\ UNCHANGED <<postVars, nextUid, refreshTokens, nextJti, accessTokens, blacklist, now,
                   last, loggedOut, blacklistApp, throttle>>

(***************************************************************************)
(* Time passes, up to a limit: tokens expire.                              *)
(***************************************************************************)
Wait(limit) ==
    /\ now < limit
    /\ now' = now + 1
    /\ UNCHANGED <<postVars, users, nextUid, refreshTokens, nextJti, accessTokens,
                   blacklist, last, loggedOut, blacklistApp, throttle>>

Tick == Wait(MaxTime)

AuthInit ==
    /\ users = {}
    /\ nextUid = 1
    /\ refreshTokens = {}
    /\ nextJti = 1
    /\ accessTokens = {}
    /\ blacklist = {}
    /\ now = 0
    /\ last = NoResponse
    /\ loggedOut = {}

AuthNext ==
    \/ \E in \in RegisterInputs : Register(in[1], in[2], in[3], in[4])
    \/ \E in \in LoginInputs : Login(in[1], in[2])
    \/ \E t \in RefreshInputs : \E a \in HeadersWith(t) : Logout(a, t)
    \/ \E a \in HeaderInputs : VerifyToken(a)
    \/ \E a \in HeaderInputs : Me(a)
    \/ \E t \in RefreshInputs : RefreshTokenView(t)
    \/ Tick

\* The accounts over their life: registration, the issuing of tokens,
\* disabling and deletion.
AccountNext ==
    \/ \E in \in AccountRegisterInputs : Register(in[1], in[2], in[3], in[4])
    \/ \E in \in AccountLoginInputs : Login(in[1], in[2])
    \/ \E in \in AccountLoginInputs : TokenObtain(in[1], in[2])
    \/ \E t \in RefreshInputs : RefreshTokenView(t)
    \/ \E a \in HeaderInputs : \E id \in 1..MaxUsers : Destroy(a, id)
    \/ \E u \in users : Deactivate(u)

\* The tokens over their life, until the refresh tokens have expired.
ExpiryNext ==
    \/ \E in \in RegisterInputs : Register(in[1], in[2], in[3], in[4])
    \/ \E in \in LoginInputs : Login(in[1], in[2])
    \/ \E t \in RefreshInputs : RefreshTokenView(t)
    \/ Wait(MaxWait)

\* The throttled endpoints, called with and without credentials.
ThrottleRegisterInputs ==
    {<<"alice", "alice@x.com", GoodPassword, GoodPassword>>,
     <<"bob", "alice@x.com", GoodPassword, OtherPassword>>}
ThrottleLoginInputs == {<<"alice", GoodPassword>>, <<"alice", OtherPassword>>}
ResetInputs == {"alice@x.com", "nobody@x.com", ""}

ThrottleNext ==
    \/ \E a \in HeaderInputs : \E in \in ThrottleRegisterInputs :
          RegisterBy(a, in[1], in[2], in[3], in[4])
    \/ \E a \in HeaderInputs : \E in \in ThrottleLoginInputs : LoginBy(a, in[1], in[2])
    \/ \E a \in HeaderInputs : \E e \in ResetInputs : PasswordResetBy(a, e)
    \/ Wait(MaxTime)

\* Password-reset requests over the accounts that registration leaves.
ResetNext ==
    \/ \E in \in AccountRegisterInputs : Register(in[1], in[2], in[3], in[4])
    \/ \E a \in HeaderInputs : \E e \in ResetInputs \cup {"bob@x.com"} : PasswordResetBy(a, e)
    \/ \E u \in users : Deactivate(u)

\* Profile updates by the registered users and by strangers.
ProfileNext ==
    \/ \E in \in AccountRegisterInputs : Register(in[1], in[2], in[3], in[4])
    \/ \E a \in HeaderInputs : \E id \in 1..MaxUsers : \E b \in Bios : UpdateUser(a, id, b)
    \/ \E u \in users : Deactivate(u)

PostInit ==
    /\ posts = {}
    /\ nextId = 1
    /\ req = [r \in Reqs |-> IdleReq]

PostNext ==
    \/ \E r \in Reqs, u \in Callers, in \in CreateInputs : CreateBegin(r, u, in[1], in[2])
    \/ \E r \in Reqs : LoopStep(r)
    \/ \E r \in Reqs : Write(r)
    \/ \E r \in Reqs, u \in Callers, p \in posts, in \in UpdateInputs :
          UpdateBegin(r, u, p, in[1], in[2])
    \/ \E r \in Reqs, u \in Callers, p \in posts : ToggleBegin(r, u, p)

\* Creations alone, over titles of every kind of character.
WordNext ==
    \/ \E r \in Reqs, u \in Callers, in \in WordInputs : CreateBegin(r, u, in[1], in[2])
    \/ \E r \in Reqs : LoopStep(r)
    \/ \E r \in Reqs : Write(r)

\* Reads and writes of posts by two users and the anonymous caller.
AccessNext ==
    \/ \E r \in Reqs, u \in AccessCallers, in \in AccessCreateInputs :
          CreateBegin(r, u, in[1], in[2])
    \/ \E r \in Reqs : Write(r)
    \/ \E r \in Reqs, u \in AccessCallers, p \in posts, in \in AccessUpdateInputs :
          UpdateBegin(r, u, p, in[1], in[2])
    \/ \E r \in Reqs, u \in AccessCallers, p \in posts : ToggleBegin(r, u, p)
    \/ \E r \in Reqs, u \in AccessCallers, p \in posts : DestroyPost(r, u, p)
    \/ \E r \in Reqs, u \in AccessCallers : List(r, u)
    \/ \E r \in Reqs, u \in AccessCallers, p \in posts : Retrieve(r, u, p)
    \/ \E r \in Reqs, u \in AccessCallers : Recent(r, u)
    \/ \E r \in Reqs, u \in AccessCallers : MyPosts(r, u)

\* The post endpoints do not read the authentication state.
Init == PostInit /\ AuthInit /\ blacklistApp = TRUE /\ throttle = NoThrottle

\* The token_blacklist application is installed or not.
InitAuth == PostInit /\ AuthInit /\ blacklistApp \in BOOLEAN /\ throttle = NoThrottle

\* A deployment with a rate for the three scopes.
InitThrottle == PostInit /\ AuthInit /\ blacklistApp = TRUE /\ throttle = Throttled

(***************************************************************************)
(* Spec: the post endpoints.  AuthSpec: the authentication endpoints.      *)
(* AccountSpec: the issuing endpoints and the life of the accounts.        *)
(* ExpirySpec: issuing and refreshing over the lifetime of a refresh token.*)
(* ThrottleSpec: the throttled endpoints where a rate is configured.       *)
(* WordSpec: creations of posts over titles of every kind of character.    *)
(* AccessSpec: reads and writes of posts by two users and a stranger.      *)
(* ResetSpec: password-reset requests over registered accounts.            *)
(* ProfileSpec: profile updates of registered accounts.                    *)
(***************************************************************************)
Spec == Init /\ [][PostNext]_vars

AuthSpec == InitAuth /\ [][AuthNext]_vars
AccountSpec == InitAuth /\ [][AccountNext]_vars
ExpirySpec == InitAuth /\ [][ExpiryNext]_vars
ThrottleSpec == InitThrottle /\ [][ThrottleNext]_vars
WordSpec == Init /\ [][WordNext]_vars
AccessSpec == Init /\ [][AccessNext]_vars
ResetSpec == Init /\ [][ResetNext]_vars
ProfileSpec == Init /\ [][ProfileNext]_vars

(***************************************************************************)
(* The claims.                                                             *)
(***************************************************************************)

\* C1: no two persisted Posts have the same slug, whatever creations,
\* updates and publish toggles have run and however they interleave.
C1_SlugsUnique == \A p \in posts, q \in posts : p.slug = q.slug => p = q

\* Two posts are persisted and the unique constraint has refused a write.
C1_Witness == Cardinality(posts) = 2 /\ \E r \in Reqs : req[r].status = 500

\* C2: saving a Post with no slug terminates.  Each candidate the loop leaves
\* behind is one a persisted Post uses, so a save that is still in the loop
\* has tried at most one candidate more than there are Posts.
C2_LoopEndsWithinPosts ==
    \A r \in Reqs : req[r].pc = "loop" => req[r].counter <= Cardinality(posts) + 1

\* C3: the slug a Post saved without one gets is the first candidate of
\* base, base-1, base-2, ... that no persisted Post uses: the loop goes on to
\* the next candidate only when a persisted Post uses the current one.
C3_SkipsOnlyUsedCandidates ==
    [][\A r \in Reqs :
          (req[r].pc = "loop" /\ req'[r].pc = "loop" /\ req'[r].counter > req[r].counter)
             => SlugExists(req[r].slug)]_vars

\* C6: a creation that meets the unique constraint's violation retries with
\* the next counter value: no creation ends in the unhandled error.
C6_NoUnhandledViolation ==
    \A r \in Reqs : (req[r].pc = "done" /\ req[r].op = "create") => req[r].status # 500

\* C7: no operation on a persisted Post changes its slug.
C7_SlugNeverChanges ==
    [][\A p \in posts : \A q \in posts' : q.id = p.id => q.slug = p.slug]_vars

\* C8: a save of a Post that has a slug keeps it whatever the new title is.
\* An update or toggle that sends no slug goes to the write with the slug of
\* the row it loaded, never through the slug loop, and the write stores it.
C8_SaveKeepsSlug ==
    [][\A r \in Reqs :
          /\ \A p \in posts :
                (/\ req[r].pc = "idle"
                 /\ req'[r].pc \notin {"idle", "done"}
                 /\ req'[r].op \in {"update", "toggle"}
                 /\ req'[r].given = NoSlug
                 /\ req'[r].inst.id = p.id)
                => (req'[r].pc = "write" /\ req'[r].inst.slug = p.slug)
          /\ (/\ req[r].pc = "write"
              /\ req[r].op \in {"update", "toggle"}
              /\ req'[r].status = 200)
             => \E q \in posts' : q.id = req[r].inst.id /\ q.slug = req[r].inst.slug]_vars

\* An update that changed only the title has been stored: the row's slug is
\* not the slug of its title.
C8_Witness ==
    \E p \in posts : p.title = Punct /\ p.slug = SlugB /\ Slugify(p.title) # p.slug

\* C9: no Post is persisted, or handed to the database, with an empty slug,
\* also when slugify(title) is empty and the request carries no slug.
C9_NoEmptySlug ==
    /\ \A p \in posts : p.slug # <<>>
    /\ \A r \in Reqs : req[r].pc = "write" => req[r].inst.slug # <<>>

\* A save of a title whose slugify is empty has run the loop.
C9_Witness ==
    \E r \in Reqs : /\ req[r].pc = "loop"
                    /\ req[r].given = NoSlug
                    /\ Slugify(req[r].inst.title) = <<>>
                    /\ req[r].counter > 1

\* C4: a logout with a refresh token that an earlier logout has revoked, and
\* that is well-formed and unexpired, succeeds again and leaves it revoked.
C4_RepeatedLogoutSucceeds ==
    (/\ last.op = "logout"
     /\ last.hdr = NoHeader
     /\ last.jti \in loggedOut
     /\ \E t \in refreshTokens : t.jti = last.jti /\ now < t.exp)
    => (last.status = 200 /\ last.jti \in blacklist)

\* C5: a refresh token revoked by logout is never Active again, and every
\* later refresh that presents it fails with the invalid-token error and
\* returns no tokens.
C5_RevokedIsTerminal ==
    /\ \A t \in refreshTokens : t.jti \in loggedOut => ~RefreshTokenOk(t)
    /\ (last.op = "refresh" /\ last.jti \in loggedOut)
       => (last.status = 401 /\ last.body = "Invalid refresh token" /\ last.issued = {})

\* A refresh has presented a revoked token that is well-formed and unexpired.
C5_Witness ==
    /\ last.op = "refresh"
    /\ last.jti \in loggedOut
    /\ \E t \in refreshTokens : t.jti = last.jti /\ now < t.exp

\* C10: verify changes no state, and answers valid: true for every unexpired
\* access token of an active user, whether or not the refresh token it was
\* minted from has been revoked.
C10_VerifyIgnoresRevocation ==
    [][(last' # last /\ last'.op = "verify")
          => /\ UNCHANGED <<postVars, users, nextUid, refreshTokens, nextJti, accessTokens,
                            blacklist, now, loggedOut, blacklistApp, throttle>>
             /\ (/\ last'.hdr \in accessTokens
                 /\ now < last'.hdr.exp
                 /\ \E u \in users : u.id = last'.hdr.user /\ u.is_active)
                => (last'.status = 200 /\ last'.body = "valid: True"
                    /\ last'.uid = last'.hdr.user)]_vars

\* verify has answered valid: true for an access token whose refresh token
\* had been revoked.
C10_Witness ==
    /\ last.op = "verify"
    /\ last.status = 200
    /\ last.hdr.parent \in loggedOut
    /\ last.hdr.parent \in blacklist

\* C11: once a session has logged out, its next request for users/me is
\* rejected, whether it comes without the Authorization header (the client
\* drops it on a successful logout) or with the access token of that session.
C11_ProfileRejectedAfterLogout ==
    (/\ last.op = "me"
     /\ loggedOut # {}
     /\ (last.hdr = NoHeader \/ last.hdr.parent \in loggedOut))
    => last.status \in {401, 403}

\* C12: login answers an unknown identifier, a wrong password and an inactive
\* account alike: 401 with the one generic error body, no token and no user
\* in the answer, when identifier and password are both non-empty.
C12_SameFailureResponse ==
    [][\A in \in AccountLoginInputs :
          LET matching == {u \in users : u.username = in[1] \/ u.email = in[1]}
              unknown == matching = {}
              wrongPassword == matching # {}
                                  /\ \A u \in matching : ~CheckPassword(in[2], u.password)
              inactive == matching # {} /\ \A u \in matching : ~u.is_active
          IN  (/\ last'.op = "login" /\ last'.sent = in
               /\ Login(in[1], in[2])
               /\ in[1] # "" /\ in[2] # ""
               /\ (unknown \/ wrongPassword \/ inactive))
              => /\ last'.status = 401
                 /\ last'.body = "Invalid credentials or inactive account"
                 /\ last'.issued = {} /\ last'.uid = 0]_vars

\* Login has refused the right password of an inactive account with the
\* generic answer.
C12_Witness ==
    /\ last.op = "login"
    /\ last.status = 401
    /\ last.body = "Invalid credentials or inactive account"
    /\ \E u \in users : /\ u.username = last.sent[1]
                         /\ CheckPassword(last.sent[2], u.password)
                         /\ ~u.is_active

\* C13: for every active user, a login that sends the user's password with
\* the user's username, or with the user's email, succeeds as that user.
C13_LoginByUsernameOrEmail ==
    [][\A in \in AccountLoginInputs : \A u \in users :
          (/\ last' # last
           /\ last'.op = "login"
           /\ last'.sent = in
           /\ u.is_active
           /\ CheckPassword(in[2], u.password)
           /\ (in[1] = u.username \/ in[1] = u.email))
          => (last'.status = 200 /\ \E v \in users : v.id = last'.uid /\ v.email = u.email)]_vars

\* C14: a registration whose password and password_confirm differ is answered
\* 400 and creates nothing: the users, and the tokens, are as they were.
C14_MismatchCreatesNoUser ==
    [][\A in \in RegisterInputs :
          (/\ in[3] # in[4]
           /\ last'.op = "register" /\ last'.sent = in
           /\ Register(in[1], in[2], in[3], in[4]))
          => /\ last'.status = 400
             /\ last'.issued = {}
             /\ UNCHANGED <<users, nextUid, refreshTokens, nextJti, accessTokens>>]_vars

\* A registration with differing passwords, its username free and its
\* password strong, has been refused.
C14_Witness ==
    /\ last.op = "register"
    /\ last.status = 400
    /\ last.sent[3] # last.sent[4]
    /\ Strong(last.sent[3])
    /\ \A u \in users : u.username # last.sent[1]

\* C15: a registration with a username or an email that an existing user
\* holds is refused, so no two users share a username and no two users share
\* an email.
C15_UsernamesAndEmailsUnique ==
    \A u \in users, v \in users :
        (u.username = v.username \/ u.email = v.email) => u = v

\* C16: verify called with an access token that register or login returned,
\* unexpired and of an active user, answers valid: true with that user's id;
\* verify called with no token, or with a token whose signature does not
\* check, answers valid: false.
C16_VerifyAnswers ==
    [][(last' # last /\ last'.op = "verify")
          => /\ AccessValid(last'.hdr)
                => (/\ last'.status = 200
                    /\ last'.body = "valid: True"
                    /\ last'.uid = last'.hdr.user)
             /\ last'.hdr \in {NoHeader, BadHeader} => last'.body = "valid: False"]_vars

\* C17: every access token, whichever path issued it (register, login,
\* refresh, the token-obtain view), embeds the same user claims: the user id,
\* the username, the email and the staff flag.
C17_SameClaimsOnEveryPath ==
    \A a \in accessTokens : a.claims = {"user_id", "username", "email", "is_staff"}

\* C18: a refresh that succeeds returns an access token whose user-id,
\* username and email claims are those of the user record as it is at that
\* moment; in particular it does not succeed when that user no longer exists.
C18_RefreshEmbedsCurrentUser ==
    [][(last' # last /\ last'.op = "refresh" /\ last'.status = 200)
          => \E a \in accessTokens' : \E u \in users :
                /\ a.parent = last'.jti
                /\ {"user_id", "username", "email"} \subseteq a.claims
                /\ a.user = u.id
                /\ a.username = u.username
                /\ a.email = u.email]_vars

\* C19: a login that succeeds sets the user's last_login to the present time
\* and returns a new refresh token, an access token minted from it and the
\* user data, in which there is no password field; a login that fails leaves
\* the users and the issued tokens as they were.
C19_LoginEffects ==
    [][\A in \in LoginInputs :
          (last'.op = "login" /\ last'.sent = in /\ Login(in[1], in[2]))
          => IF last'.status = 200
             THEN /\ \E u \in users' : u.id = last'.uid /\ u.last_login = now
                  /\ \E t \in refreshTokens' \ refreshTokens :
                        /\ last'.issued = {t.jti}
                        /\ t.user = last'.uid
                        /\ \E a \in accessTokens' : a.parent = t.jti /\ a.user = last'.uid
                  /\ last'.user.id = last'.uid
                  /\ "password" \notin DOMAIN last'.user
             ELSE /\ last'.issued = {}
                  /\ UNCHANGED <<users, nextUid, refreshTokens, nextJti, accessTokens>>]_vars

\* A login has succeeded after time has passed: the user's last_login is the
\* time of that login.
C19_Witness ==
    /\ last.op = "login"
    /\ last.status = 200
    /\ now > 0
    /\ \E u \in users : u.id = last.uid /\ u.last_login = now

\* C20: a refresh with a malformed or an expired refresh token is answered
\* 401 with the invalid-token error, a refresh with no token is answered 400;
\* either way the answer carries no token and nothing changes.
C20_BadRefreshRefused ==
    [][\A t \in RefreshInputs :
          (/\ (t = Missing \/ t = Garbage \/ now >= t.exp)
           /\ last'.op = "refresh" /\ last'.jti = t.jti
           /\ RefreshTokenView(t))
          => /\ IF t = Missing
                THEN last'.status = 400
                ELSE last'.status = 401 /\ last'.body = "Invalid refresh token"
             /\ last'.issued = {}
             /\ UNCHANGED <<postVars, users, nextUid, refreshTokens, nextJti, accessTokens,
                            blacklist, now, loggedOut, blacklistApp, throttle>>]_vars

\* A refresh has presented a refresh token that was issued and has expired.
C20_Witness ==
    /\ last.op = "refresh"
    /\ last.status = 401
    /\ \E t \in refreshTokens : t.jti = last.jti /\ now >= t.exp

\* C21: a logout that supplies no refresh token is answered 400 with the
\* missing-token error, a logout whose token cannot be parsed is answered 400
\* with the invalid-token error, a different one; neither changes the
\* blacklist.  (Requests whose Authorization header the framework accepts.)
C21_LogoutErrors ==
    [][\A t \in {Missing, Garbage} : \A a \in HeadersWith(t) :
          (/\ last'.op = "logout" /\ last'.jti = t.jti /\ last'.hdr = a
           /\ ~HeaderRejected(a)
           /\ Logout(a, t))
          => /\ last'.status = 400
             /\ last'.body = IF t = Missing THEN "Refresh token required" ELSE "Invalid token"
             /\ UNCHANGED <<blacklist, loggedOut, refreshTokens, accessTokens, users>>]_vars

\* With a token on the blacklist, a logout has sent one that does not parse.
C21_Witness ==
    /\ last.op = "logout"
    /\ last.jti = Garbage.jti
    /\ last.status = 400
    /\ last.body = "Invalid token"
    /\ blacklist # {}

\* C22: login, registration and the password-reset request have each a budget
\* of their own for every caller, authenticated or not: a request is refused
\* (429, nothing run) exactly when the budget of its caller for that operation
\* is used up in the current window, whatever was asked of the other two
\* operations and whatever credentials the request carries.
C22_PerCallerBudgets ==
    [][\A k \in Scopes :
          (/\ last'.op = k
           /\ ~HeaderRejected(last'.hdr)
           /\ <<last', throttle'>> # <<last, throttle>>)
          => (last'.status = 429 <=> Len(Pruned(throttle.history[k])) >= throttle.rate)]_vars

\* C23: for every title with an alphanumeric character, titles with
\* underscores or letters outside ASCII included, the slug a save works out
\* for a Post that has none (slugify(title) and every candidate made of it)
\* is made of a-z, 0-9 and hyphens only, is not empty, and neither starts
\* nor ends with a hyphen.
C23_SlugWellFormed ==
    \A r \in Reqs :
        LET t == req[r].inst.title
            s == req[r].slug
        IN  (/\ req[r].pc = "loop"
             /\ \E i \in 1..Len(t) : t[i] \in {"H", "W"} \cup Lower \cup Digit \cup NonAscii)
            => /\ s # <<>>
               /\ \A i \in 1..Len(s) : s[i] \in Lower \cup Digit \cup {"-"}
               /\ s[1] # "-"
               /\ s[Len(s)] # "-"

\* C24: the posts in the answer of a list, retrieve or recent request are
\* published or written by the caller; no unpublished post is returned to a
\* caller who is not its author, the anonymous caller included.
C24_OnlyVisiblePostsReturned ==
    \A r \in Reqs :
        req[r].op \in {"list", "retrieve", "recent"}
        => \A p \in req[r].got :
              p.is_published \/ (req[r].by # Anon /\ p.author = req[r].by)

\* An unpublished post exists, and the list request of a user who is not
\* its author has been answered without it.
C24_Witness ==
    \E p \in posts :
        /\ ~p.is_published
        /\ \E r \in Reqs : /\ req[r].op = "list"
                            /\ req[r].status = 200
                            /\ req[r].by \notin {Anon, p.author}
                            /\ p \notin req[r].got

\* C25: a post is updated, partially updated or deleted by its author alone:
\* an update or a delete asked by another user or by the anonymous caller is
\* answered with a refusal at once, never reaches the database, and leaves
\* the posts as they were.
C25_OnlyAuthorWrites ==
    [][\A r \in Reqs : \A u \in AccessCallers : \A p \in posts :
          (/\ req[r].pc = "idle"
           /\ req'[r].op \in {"update", "destroy"}
           /\ p.author # u
           /\ \/ \E in \in AccessUpdateInputs : UpdateBegin(r, u, p, in[1], in[2])
              \/ DestroyPost(r, u, p))
          => /\ req'[r].pc = "done"
             /\ req'[r].status \in {401, 403, 404}
             /\ posts' = posts]_vars

\* A user's update of another user's post and the anonymous caller's delete
\* have been refused, and the post is there.
C25_Witness ==
    /\ posts # {}
    /\ \E r \in Reqs : req[r].op = "update" /\ req[r].status = 403
    /\ \E r \in Reqs : req[r].op = "destroy" /\ req[r].status = 401

C27_OnlyOwnerDestroys ==
    [][\A id \in 1..MaxUsers : \A a \in accessTokens :
          (/\ last'.op = "destroy"
           /\ last'.hdr = a
           /\ a.user # id
           /\ Destroy(a, id))
          => /\ last'.status # 204
             /\ users' = users
             /\ posts' = posts]_vars

\* C28: the password-reset request gives the same answer, status and message,
\* whether or not an active account has the email it names, in every state
\* of the user table, several accounts with that email included.
C28_ResetAnswerIsUniform ==
    (/\ last.op = "password_reset"
     /\ last.sent # <<"">>
     /\ ~HeaderRejected(last.hdr))
    => /\ last.status = 200
       /\ last.body = "If an account with this email exists, you will receive password reset instructions."

====
